---- MODULE Spec2Model ----
(***************************************************************************)
(* State-machine model of the COVID-19 incidence widget script             *)
(* (src/unnamed/part_000): input normalisation (getLookupCodes), the       *)
(* sequential fetch pass (getData), the single-file cache, the staleness   *)
(* indicator, the trend symbol (getTrendSymbol) and the location list      *)
(* built by makeWidget.                                                    *)
(*                                                                         *)
(* Conventions.  A JavaScript string whose characters matter is a sequence *)
(* of one-character strings.  A JavaScript number is an integer count of   *)
(* 1/Unit: the number 1 is Unit, 0.5 is Unit \div 2.  Time is in           *)
(* milliseconds, as Date.now() reports it.                                 *)
(***************************************************************************)
EXTENDS Integers, Sequences, FiniteSets, TLC

VARIABLES
    file,       \* the cache file: [exists, updated, data] (the JSON document)
    now,        \* the wall clock, what Date.now() returns
    pc,         \* position of the script: idle, request, await, fetched, cached, done,
                \* killed
    codes,      \* makeWidget's `codes`, each code in its string form
    responses,  \* getData's `responses` (after getData returned: its result)
    failed,     \* whether a request of this run's getData threw
    issued,     \* the requests issued by this run, in order (their URLs' codes)
    locData,    \* makeWidget's `locData`: [updated, hasData, data]
    widget,     \* what the returned widget shows
    wrote,      \* whether this run called fm.writeString
    didRead,    \* whether this run called fm.fileExists / fm.readString
    fnIn,       \* argument of the function under test (function specifications)
    fnOut       \* its result

vars == <<file, now, pc, codes, responses, failed, issued, locData, widget,
          wrote, didRead, fnIn, fnOut>>

runVars == <<file, now, pc, codes, responses, failed, issued, locData, widget,
             wrote, didRead>>

-----------------------------------------------------------------------------
(* Bounds of the model.                                                    *)

\* Numbers are counted in 1/Unit.
Unit == 2
\* Longest raw parameter list given to getLookupCodes on its own.
MaxTokens == 4
\* Longest raw parameter list of a run of the script.
MaxInput == 2
\* The clock stops after this many steps of two days.
MaxTicks == 2
\* Largest magnitude of a value given to getTrendSymbol on its own.
MaxVal == 10
\* Snapshot ages given to the staleness rule on its own reach this many hours.
MaxAgeHours == 73
\* Longest snapshot given to the location list on its own.
MaxRecords == 4

-----------------------------------------------------------------------------
(* Sequences.                                                              *)

Range(s) == {s[i] : i \in 1..Len(s)}

\* Array.prototype.filter: the elements from position i on for which the
\* callback returned true (keep[i]), in order.
RECURSIVE FilterIdx(_, _, _)
FilterIdx(s, keep, i) ==
    IF i > Len(s) THEN <<>>
    ELSE (IF keep[i] THEN <<s[i]>> ELSE <<>>) \o FilterIdx(s, keep, i + 1)

\* All sequences over S of length at most n.
SeqsUpTo(S, n) == UNION {[1..k -> S] : k \in 0..n}

-----------------------------------------------------------------------------
(* JavaScript strings, and the string form `${val}` of a raw parameter.    *)

Digits == {"0", "1", "2", "3", "4", "5", "6", "7", "8", "9"}
WhiteSpace == {" ", "\t"}

DigitChar(d) ==
    CASE d = 0 -> "0" [] d = 1 -> "1" [] d = 2 -> "2" [] d = 3 -> "3"
      [] d = 4 -> "4" [] d = 5 -> "5" [] d = 6 -> "6" [] d = 7 -> "7"
      [] d = 8 -> "8" [] d = 9 -> "9"

DigitVal(c) == CHOOSE d \in 0..9 : DigitChar(d) = c

\* Decimal form of a natural number.
RECURSIVE NatToString(_)
NatToString(n) ==
    IF n < 10 THEN <<DigitChar(n)>>
    ELSE NatToString(n \div 10) \o <<DigitChar(n % 10)>>

\* Raw parameters: strings, integers, null and arrays of integers.
StrVal(s) == [t |-> "string", s |-> s, n |-> 0, a |-> <<>>]
NumVal(n) == [t |-> "number", s |-> <<>>, n |-> n, a |-> <<>>]
NullVal == [t |-> "null", s |-> <<>>, n |-> 0, a |-> <<>>]
ArrVal(a) == [t |-> "array", s |-> <<>>, n |-> 0, a |-> a]

IntToString(n) == IF n < 0 THEN <<"-">> \o NatToString(-n) ELSE NatToString(n)

\* Array.prototype.join(','), which an array's string form is.
RECURSIVE JoinInts(_)
JoinInts(a) ==
    IF Len(a) = 0 THEN <<>>
    ELSE IF Len(a) = 1 THEN IntToString(a[1])
    ELSE IntToString(a[1]) \o <<",">> \o JoinInts(Tail(a))

\* `${val}`
StringOf(v) ==
    CASE v.t = "string" -> v.s
      [] v.t = "number" -> IntToString(v.n)
      [] v.t = "null" -> <<"n", "u", "l", "l">>
      [] v.t = "array" -> JoinInts(v.a)

\* String.prototype.trim
RECURSIVE TrimStart(_)
TrimStart(s) ==
    IF Len(s) > 0 /\ s[1] \in WhiteSpace THEN TrimStart(Tail(s)) ELSE s

RECURSIVE TrimEnd(_)
TrimEnd(s) ==
    IF Len(s) > 0 /\ s[Len(s)] \in WhiteSpace
    THEN TrimEnd(SubSeq(s, 1, Len(s) - 1)) ELSE s

Trim(s) == TrimEnd(TrimStart(s))

\* /^\d{5}$/
IsFiveDigits(s) == Len(s) = 5 /\ \A i \in 1..5 : s[i] \in Digits

-----------------------------------------------------------------------------
(* getLookupCodes.                                                         *)

\* A match result is an array object: `ref` is its identity (the position of
\* the raw parameter whose map callback created it), `str` its element 0.
NoMatch == [ref |-> 0, str |-> <<>>]

\* toCodes: String.prototype.match returns a fresh array, or null.
toCodes(val, idx) ==
    IF IsFiveDigits(Trim(StringOf(val)))
    THEN [ref |-> idx, str |-> Trim(StringOf(val))]
    ELSE NoMatch

notEmpty(val) == val # NoMatch

\* A faulty variant: it compares the text of two match results.
SameValueZeroByText(a, b) == a.str = b.str

\* Array.prototype.includes compares with SameValueZero: two objects are the
\* same value only if they are the same object.
SameValueZero(a, b) == a.ref = b.ref

Includes(ary, val) == \E k \in 1..Len(ary) : SameValueZero(ary[k], val)

\* Array.prototype.slice(0, end) for end >= 0.
Slice0(ary, end) == SubSeq(ary, 1, IF end > Len(ary) THEN Len(ary) ELSE end)

\* unique(val, idx, ary), idx counted from 0 as in the source.
unique(val, idx, ary) == idx = 0 \/ ~Includes(Slice0(ary, idx - 1), val)

\* codes.map(toCodes).filter(notEmpty).filter(unique)
getLookupCodes(raw) ==
    LET mapped == [i \in 1..Len(raw) |-> toCodes(raw[i], i)]
        kept == FilterIdx(mapped, [i \in 1..Len(mapped) |-> notEmpty(mapped[i])], 1)
    IN  FilterIdx(kept, [i \in 1..Len(kept) |-> unique(kept[i], i - 1, kept)], 1)

\* The string form of each code: what `${code}`, JSON.stringify and the
\* placeholder replacement make of a match result.
CodeStrings(cs) == [i \in 1..Len(cs) |-> cs[i].str]

-----------------------------------------------------------------------------
(* getTrendSymbol.                                                         *)

\* A faulty variant: it takes a rise for strong only when it exceeds the elder value.
getTrendSymbolStrict(value, comparedTo) ==
    LET diff == value - comparedTo
    IN  IF diff > comparedTo THEN "arrow.up.circle"
        ELSE IF diff >= 1 * Unit THEN "arrow.up.right.circle"
        ELSE IF diff <= -1 * Unit THEN "arrow.down.right.circle"
        ELSE IF diff <= -comparedTo THEN "arrow.down.circle"
        ELSE "equal.circle"

\* A faulty variant: it tests the strong fall before the fall.
getTrendSymbolFallFirst(value, comparedTo) ==
    LET diff == value - comparedTo
    IN  IF diff >= comparedTo THEN "arrow.up.circle"
        ELSE IF diff >= 1 * Unit THEN "arrow.up.right.circle"
        ELSE IF diff <= -comparedTo THEN "arrow.down.circle"
        ELSE IF diff <= -1 * Unit THEN "arrow.down.right.circle"
        ELSE "equal.circle"

getTrendSymbol(value, comparedTo) ==
    LET diff == value - comparedTo
    IN  IF diff >= comparedTo THEN "arrow.up.circle"
        ELSE IF diff >= 1 * Unit THEN "arrow.up.right.circle"
        ELSE IF diff <= -1 * Unit THEN "arrow.down.right.circle"
        ELSE IF diff <= -comparedTo THEN "arrow.down.circle"
        ELSE "equal.circle"

-----------------------------------------------------------------------------
(* The staleness indicator of makeWidget.                                  *)

hours == 60 * 60 * 1000

\* A faulty variant: it warns from 24 hours on, and is critical from 72 hours on.
StalenessInclusive(age) ==
    IF age >= 24 * hours
    THEN (IF age >= 72 * hours THEN "xmark.circle.fill"
          ELSE "exclamationmark.circle.fill")
    ELSE "none"

\* The symbol added to the update line; "none" when no symbol is added.
Staleness(age) ==
    IF age > 24 * hours
    THEN (IF age > 72 * hours THEN "xmark.circle.fill"
          ELSE "exclamationmark.circle.fill")
    ELSE "none"

-----------------------------------------------------------------------------
(* Values of the records: strings and numbers that may be missing.         *)

SStr(s) == [t |-> "string", v |-> s]
SUndef == [t |-> "undefined", v |-> ""]
\* JavaScript truthiness of such a value.
Truthy(x) == x.t = "string" /\ x.v # ""

Num(n) == [t |-> "number", n |-> n]
NaN == [t |-> "NaN", n |-> 0]
NumNull == [t |-> "null", n |-> 0]
\* x == null
IsNull(x) == x.t \in {"null", "undefined"}

\* A metric as the remote source sends it: a text, or missing.
Text(s) == [t |-> "string", s |-> s]
NoText == [t |-> "undefined", s |-> <<>>]

\* The value of a run of decimal digits.
RECURSIVE DigitsValue(_, _)
DigitsValue(s, acc) ==
    IF Len(s) = 0 \/ s[1] \notin Digits THEN acc
    ELSE DigitsValue(Tail(s), 10 * acc + DigitVal(s[1]))

\* Number.parseFloat of a metric: leading white space is skipped, then an
\* optional sign and the longest run of digits are read; NaN if there is no
\* digit.  (The metric texts of the model carry no fraction and no exponent.)
parseFloat(x) ==
    IF x.t # "string" THEN NaN
    ELSE LET s == TrimStart(x.s)
             neg == Len(s) > 0 /\ s[1] = "-"
             body == IF Len(s) > 0 /\ s[1] \in {"-", "+"} THEN Tail(s) ELSE s
         IN  IF Len(body) = 0 \/ body[1] \notin Digits THEN NaN
             ELSE Num((IF neg THEN -1 ELSE 1) * DigitsValue(body, 0) * Unit)

-----------------------------------------------------------------------------
(* The remote source and the inputs of a run.                              *)

\* Bodies the remote source answers with.
RespPool ==
    { [cityName |-> SStr("Bergisch Gladbach"),
       districtName |-> SStr("Rheinisch-Bergischer Kreis"),
       lockdownIndex |-> Text(<<"1", "0">>),
       lockdownIndexPrevious2 |-> Text(<<"5">>),
       dataSource |-> SStr("RKI")],
      [cityName |-> SStr("Odenthal"),
       districtName |-> SUndef,
       lockdownIndex |-> Text(<<"5">>),
       lockdownIndexPrevious2 |-> NoText,
       dataSource |-> SStr("LGL")],
      [cityName |-> SUndef,
       districtName |-> SUndef,
       lockdownIndex |-> Text(<<"n", "/", "a">>),
       lockdownIndexPrevious2 |-> NoText,
       dataSource |-> SStr("DIVI")] }

\* Raw parameters of a run: two postal codes and a token that is none.
RunTokens ==
    { StrVal(<<"5", "0", "9", "3", "7">>),
      StrVal(<<" ", "5", "1", "0", "6", "3">>),
      StrVal(<<"f", "o", "o">>) }

Inputs == SeqsUpTo(RunTokens, MaxInput)

Sizes == {"small", "medium", "large"}

-----------------------------------------------------------------------------
(* getData: one request.                                                   *)

\* The record built from the response to the request for `code`.
MakeData(code, resp) ==
    [code |-> code,
     place |-> resp.cityName,
     district |-> resp.districtName,
     incidence |-> parseFloat(resp.lockdownIndex),
     previousIncidence |-> parseFloat(resp.lockdownIndexPrevious2),
     credit |-> resp.dataSource,
     url |-> code]

-----------------------------------------------------------------------------
(* The cache file.                                                         *)

\* A faulty variant: it writes NaN as it is.
StringifyNumKept(x) == x

\* JSON.stringify of a number: NaN is written as null.
StringifyNum(x) == IF x.t = "NaN" THEN NumNull ELSE x

\* A faulty variant: it leaves out the previous incidence.
StringifyDataNoPrevious(d) ==
    [d EXCEPT !.incidence = StringifyNum(d.incidence),
              !.previousIncidence = NumNull]

\* JSON.stringify of a record; a missing (undefined) member is left out and
\* is undefined again when the document is parsed.
StringifyData(d) ==
    [d EXCEPT !.incidence = StringifyNum(d.incidence),
              !.previousIncidence = StringifyNum(d.previousIncidence)]

\* A faulty variant: it stores no time of update.
JSONStringifyUnstamped(respData) ==
    [exists |-> TRUE,
     updated |-> 0,
     data |-> [i \in 1..Len(respData.data) |-> StringifyData(respData.data[i])]]

\* JSON.stringify(respData): the document fm.writeString stores.
JSONStringify(respData) ==
    [exists |-> TRUE,
     updated |-> respData.updated,
     data |-> [i \in 1..Len(respData.data) |-> StringifyData(respData.data[i])]]

\* JSON.parse(fm.readString(cache)): the stored document as a value.
JSONParse(f) == [updated |-> f.updated, hasData |-> TRUE, data |-> f.data]

NoFile == [exists |-> FALSE, updated |-> 0, data |-> <<>>]

\* The value used when there is no cache file: { updated: Date.now(), data: null }
Sentinel(t) == [updated |-> t, hasData |-> FALSE, data |-> <<>>]

NoLocData == [updated |-> 0, hasData |-> FALSE, data |-> <<>>]

-----------------------------------------------------------------------------
(* The location list of makeWidget.                                        *)

\* A label is a name, or the localised placeholder 'Code <code>'.
NameLabel(n) == [name |-> n, code |-> <<>>]
CodeLabel(c) == [name |-> "", code |-> c]

\* l8n.string('msgCode', { code: c }): a missing code leaves the default '?'.
msgCode(cs, idx) == IF idx <= Len(cs) THEN CodeLabel(cs[idx]) ELSE CodeLabel(<<"?">>)

\* prefs.preferDistricts ? data.district : data.place || data.district, then
\* name || l8n.string('msgCode', { code: codes[idx] }); idx counted from 1.
Location(data, idx, cs, preferDistricts) ==
    LET name == IF preferDistricts THEN data.district
                ELSE IF Truthy(data.place) THEN data.place ELSE data.district
    IN  IF Truthy(name) THEN NameLabel(name.v) ELSE msgCode(cs, idx)

\* previous == null ? SFSymbol.named('questionmark.circle')
\*                  : getTrendSymbol(current, previous)
TrendSymbol(current, previous) ==
    IF IsNull(previous) THEN "questionmark.circle"
    ELSE getTrendSymbol(current.n, previous.n)

\* The trend symbol of a line; "none" on a small widget.
TrendOf(data, small) ==
    IF small THEN "none" ELSE TrendSymbol(data.incidence, data.previousIncidence)

\* A faulty variant: it takes every record to carry a value.
HasValueAlways(data) == TRUE

\* current != null
HasValue(data) == ~IsNull(data.incidence)

\* One line of the list: the label, the value (or 'unknown') and the trend.
Line(data, idx, location, small) ==
    IF HasValue(data)
    THEN [idx |-> idx, location |-> location, value |-> data.incidence,
          trend |-> TrendOf(data, small), url |-> data.url]
    ELSE [idx |-> idx, location |-> location, value |-> NumNull,
          trend |-> "none", url |-> data.url]

maxLinesOf(size) == IF size = "large" THEN 11 ELSE 3

\* A faulty variant: it compares with the line added last only.
ListedLast(lines, location) ==
    Len(lines) > 0 /\ lines[Len(lines)].location = location

\* locations.includes(location)
Listed(lines, location) ==
    \E k \in 1..Len(lines) : lines[k].location = location

\* locData.data.forEach(...): acc holds `locations` (as the lines) and `credits`.
RECURSIVE ForEach(_, _, _, _, _, _)
ForEach(data, idx, cs, size, preferDistricts, acc) ==
    IF idx > Len(data) THEN acc
    ELSE LET d == data[idx]
             location == Location(d, idx, cs, preferDistricts)
             add == Len(acc.lines) < maxLinesOf(size)
                      /\ ~Listed(acc.lines, location)
             credit == add /\ HasValue(d) /\ Truthy(d.credit)
                           /\ d.credit.v \notin Range(acc.credits)
             next == [lines |-> IF add
                                THEN Append(acc.lines,
                                            Line(d, idx, location, size = "small"))
                                ELSE acc.lines,
                      credits |-> IF credit THEN Append(acc.credits, d.credit.v)
                                  ELSE acc.credits]
         IN  ForEach(data, idx + 1, cs, size, preferDistricts, next)

NoWidget ==
    [message |-> "", updateLine |-> FALSE, updated |-> -1, warning |-> "none",
     lines |-> <<>>, credits |-> <<>>, size |-> "", preferDistricts |-> FALSE]

-----------------------------------------------------------------------------
(* The script: one run is makeWidget followed by Script.complete().        *)

\* The clock of the model advances in steps of two days.
tick == 48 * hours

Idle ==
    /\ pc = "idle"
    /\ codes = <<>>
    /\ responses = <<>>
    /\ failed = FALSE
    /\ issued = <<>>
    /\ locData = NoLocData
    /\ widget = NoWidget
    /\ wrote = FALSE
    /\ didRead = FALSE

NoFn == [kind |-> "none"]

Init ==
    /\ file = NoFile
    /\ now = 0
    /\ Idle
    /\ fnIn = NoFn
    /\ fnOut = NoFn

\* A faulty variant: it never reports missing codes.
NoCodesNever(cs) == FALSE

\* if (!codes.length)
NoCodes(cs) == Len(cs) = 0

\* A faulty variant: it returns after the first answer.
LoopPcFirst(cs, resps) == IF Len(resps) >= 1 THEN "fetched" ELSE "request"

\* getData's loop `for (code of codes)`: with every code answered it ends and
\* `responses` is returned, otherwise the next request is made.
LoopPc(cs, resps) == IF Len(resps) = Len(cs) THEN "fetched" ELSE "request"

\* A faulty variant: it returns the records collected before the failure.
CatchReturnCollected(resps) == resps

\* catch (error) { console.error(error); return [] }
CatchReturn(resps) == <<>>

\* makeWidget up to the call of getData (lines 208-236): the codes are
\* normalised; without codes the widget shows the input error and is returned.
StartRun ==
    /\ pc = "idle"
    /\ \E raw \in Inputs :
         LET cs == CodeStrings(getLookupCodes(raw))
         IN  /\ codes' = cs
             /\ IF NoCodes(cs)
                THEN /\ widget' = [NoWidget EXCEPT !.message = "msgCodeError"]
                     /\ pc' = "done"
                ELSE /\ widget' = NoWidget
                     /\ pc' = LoopPc(cs, <<>>)
    /\ UNCHANGED <<file, now, responses, failed, issued, locData, wrote, didRead,
                   fnIn, fnOut>>

\* getData: the loop takes the next code and awaits request.loadJSON().
IssueRequest ==
    /\ pc = "request"
    /\ Len(responses) < Len(codes)
    /\ issued' = Append(issued, codes[Len(responses) + 1])
    /\ pc' = "await"
    /\ UNCHANGED <<file, now, codes, responses, failed, locData, widget,
                   wrote, didRead, fnIn, fnOut>>

\* getData: the awaited request is answered; its record is pushed, and after
\* the last code the loop ends and `responses` is returned.
RequestOk ==
    /\ pc = "await"
    /\ \E resp \in RespPool :
         responses' = Append(responses, MakeData(codes[Len(responses) + 1], resp))
    /\ pc' = LoopPc(codes, responses')
    /\ UNCHANGED <<file, now, codes, failed, issued, locData, widget,
                   wrote, didRead, fnIn, fnOut>>

\* getData: the awaited request throws (no connection, an error status, a body
\* that is no JSON object); the catch clause returns [].
RequestFail ==
    /\ pc = "await"
    /\ responses' = CatchReturn(responses)
    /\ failed' = TRUE
    /\ pc' = "fetched"
    /\ UNCHANGED <<file, now, codes, issued, locData, widget, wrote,
                   didRead, fnIn, fnOut>>

\* A faulty variant: it writes whatever getData returned.
WriteAlways(resps) == TRUE

\* if (responses.length)
ShouldWrite(resps) == Len(resps) # 0

\* makeWidget, lines 238-246: a non-empty result replaces the cache file.
CacheWrite ==
    /\ pc = "fetched"
    /\ IF ShouldWrite(responses)
       THEN /\ file' = JSONStringify([updated |-> now, data |-> responses])
            /\ wrote' = TRUE
       ELSE UNCHANGED <<file, wrote>>
    /\ pc' = "cached"
    /\ UNCHANGED <<now, codes, responses, failed, issued, locData, widget,
                   didRead, fnIn, fnOut>>

\* A faulty variant: it stamps what it read with the time of the read.
ReadCacheRestamped(f, t) ==
    IF f.exists THEN [JSONParse(f) EXCEPT !.updated = t] ELSE Sentinel(t)

\* fm.fileExists(cache) ? JSON.parse(fm.readString(cache))
\*                        : { updated: Date.now(), data: null }
ReadCache(f, t) == IF f.exists THEN JSONParse(f) ELSE Sentinel(t)

\* A faulty variant: without data it shows the message only, no update line.
BuildWidgetNoDataEarly(loc, t, cs, size, preferDistricts) ==
    LET age == t - loc.updated
        head == [NoWidget EXCEPT !.updateLine = TRUE,
                                 !.updated = loc.updated,
                                 !.warning = Staleness(age),
                                 !.size = size,
                                 !.preferDistricts = preferDistricts]
    IN  IF ~loc.hasData \/ Len(loc.data) = 0
        THEN [NoWidget EXCEPT !.message = "msgNoData",
                              !.size = size,
                              !.preferDistricts = preferDistricts]
        ELSE LET list == ForEach(loc.data, 1, cs, size, preferDistricts,
                                 [lines |-> <<>>, credits |-> <<>>])
             IN  [head EXCEPT !.lines = list.lines, !.credits = list.credits]

\* The widget makeWidget returns from lines 248-363.
BuildWidget(loc, t, cs, size, preferDistricts) ==
    LET age == t - loc.updated
        head == [NoWidget EXCEPT !.updateLine = TRUE,
                                 !.updated = loc.updated,
                                 !.warning = Staleness(age),
                                 !.size = size,
                                 !.preferDistricts = preferDistricts]
    IN  IF ~loc.hasData \/ Len(loc.data) = 0
        THEN [head EXCEPT !.message = "msgNoData"]
        ELSE LET list == ForEach(loc.data, 1, cs, size, preferDistricts,
                                 [lines |-> <<>>, credits |-> <<>>])
             IN  [head EXCEPT !.lines = list.lines, !.credits = list.credits]

\* makeWidget, lines 248-363: the cache is read and the widget is built.
Present ==
    /\ pc = "cached"
    /\ locData' = ReadCache(file, now)
    /\ didRead' = TRUE
    /\ \E size \in Sizes, preferDistricts \in BOOLEAN :
         widget' = BuildWidget(locData', now, codes, size, preferDistricts)
    /\ pc' = "done"
    /\ UNCHANGED <<file, now, codes, responses, failed, issued, wrote,
                   fnIn, fnOut>>

\* Script.setWidget / presentLarge and Script.complete() (lines 72-80); after
\* a run the host ended, the script is simply gone.
Complete ==
    /\ pc \in {"done", "killed"}
    /\ pc' = "idle"
    /\ codes' = <<>>
    /\ responses' = <<>>
    /\ failed' = FALSE
    /\ issued' = <<>>
    /\ locData' = NoLocData
    /\ widget' = NoWidget
    /\ wrote' = FALSE
    /\ didRead' = FALSE
    /\ UNCHANGED <<file, now, fnIn, fnOut>>

\* Time passes, between two runs or while a request is awaited.
Tick ==
    /\ pc \in {"idle", "await"}
    /\ now + tick <= MaxTicks * tick
    /\ now' = now + tick
    /\ UNCHANGED <<file, pc, codes, responses, failed, issued, locData, widget,
                   wrote, didRead, fnIn, fnOut>>

\* The wall clock is set back (Date.now() is not monotonic).
ClockBack ==
    /\ pc = "idle"
    /\ now >= tick
    /\ now' = now - tick
    /\ UNCHANGED <<file, pc, codes, responses, failed, issued, locData, widget,
                   wrote, didRead, fnIn, fnOut>>

\* The host ends the script while makeWidget has not returned.
Kill ==
    /\ pc \in {"request", "await", "fetched", "cached"}
    /\ pc' = "killed"
    /\ UNCHANGED <<file, now, codes, responses, failed, issued, locData, widget,
                   wrote, didRead, fnIn, fnOut>>

Next ==
    \/ StartRun
    \/ IssueRequest
    \/ RequestOk
    \/ RequestFail
    \/ CacheWrite
    \/ Present
    \/ Complete
    \/ Tick
    \/ ClockBack
    \/ Kill

Spec == Init /\ [][Next]_vars

-----------------------------------------------------------------------------
(* getLookupCodes on its own.                                              *)

\* const testData = [' 50937', '51063', null, [1], 'foo', 51429, '99999']
testData ==
    << StrVal(<<" ", "5", "0", "9", "3", "7">>),
       StrVal(<<"5", "1", "0", "6", "3">>),
       NullVal,
       ArrVal(<<1>>),
       StrVal(<<"f", "o", "o">>),
       NumVal(51429),
       StrVal(<<"9", "9", "9", "9", "9">>) >>

\* Raw parameters the lists are made of.
Tokens ==
    Range(testData) \cup
    { StrVal(<<"5", "0", "9", "3", "7">>),
      StrVal(<<"5", "0", "9", "3", "7", "0">>) }

CodesInit ==
    /\ file = NoFile
    /\ now = 0
    /\ Idle
    /\ \E raw \in SeqsUpTo(Tokens, MaxTokens) \cup {testData} :
         fnIn = [kind |-> "getLookupCodes", raw |-> raw]
    /\ fnOut = NoFn

CallGetLookupCodes ==
    /\ fnIn.kind = "getLookupCodes"
    /\ fnOut.kind = "none"
    /\ fnOut' = [kind |-> "codes", codes |-> getLookupCodes(fnIn.raw)]
    /\ UNCHANGED <<runVars, fnIn>>

SpecCodes == CodesInit /\ [][CallGetLookupCodes]_vars

-----------------------------------------------------------------------------
(* The trend symbol on its own.                                            *)

TrendValues == {Num(n) : n \in (-MaxVal * Unit)..(MaxVal * Unit)}

TrendInit ==
    /\ file = NoFile
    /\ now = 0
    /\ Idle
    /\ \E current \in TrendValues, previous \in TrendValues \cup {NumNull} :
         fnIn = [kind |-> "trend", current |-> current, previous |-> previous]
    /\ fnOut = NoFn

CallTrendSymbol ==
    /\ fnIn.kind = "trend"
    /\ fnOut.kind = "none"
    /\ fnOut' = [kind |-> "symbol",
                 symbol |-> TrendSymbol(fnIn.current, fnIn.previous)]
    /\ UNCHANGED <<runVars, fnIn>>

SpecTrend == TrendInit /\ [][CallTrendSymbol]_vars

-----------------------------------------------------------------------------
(* The staleness indicator on its own.                                     *)

\* Ages within a millisecond of every full hour up to MaxAgeHours.
Ages == {h * hours + d : h \in 0..MaxAgeHours, d \in {-1, 0, 1}}

StaleInit ==
    /\ file = NoFile
    /\ now = 0
    /\ Idle
    /\ \E updated \in {0, tick}, age \in Ages :
         fnIn = [kind |-> "staleness", now |-> updated + age, updated |-> updated]
    /\ fnOut = NoFn

\* const age = Date.now() - locData.updated, and the symbol chosen for it.
CallStaleness ==
    /\ fnIn.kind = "staleness"
    /\ fnOut.kind = "none"
    /\ fnOut' = [kind |-> "warning",
                 warning |-> Staleness(fnIn.now - fnIn.updated)]
    /\ UNCHANGED <<runVars, fnIn>>

SpecStale == StaleInit /\ [][CallStaleness]_vars

-----------------------------------------------------------------------------
(* The location list on its own.                                           *)

\* The codes the widget parameters of a run can give.
RenderCodes ==
    UNION {Range(CodeStrings(getLookupCodes(<<t>>))) : t \in RunTokens}

\* Records as a cache file holds them.
CachedRecords ==
    {StringifyData(MakeData(c, r)) : c \in RenderCodes, r \in RespPool}

\* The codes of the run that shows a snapshot: those of the snapshot (it was
\* fetched by this run) or those of a run whose fetch pass failed.
CodesFor(data) ==
    {[i \in 1..Len(data) |-> data[i].code]}
      \cup {<<c>> : c \in RenderCodes}

RenderInit ==
    /\ file = NoFile
    /\ now = 0
    /\ Idle
    /\ \E data \in SeqsUpTo(CachedRecords, MaxRecords) \ {<<>>} :
         \E cs \in CodesFor(data), size \in Sizes, preferDistricts \in BOOLEAN :
           fnIn = [kind |-> "render", data |-> data, codes |-> cs, size |-> size,
                   preferDistricts |-> preferDistricts]
    /\ fnOut = NoFn

\* makeWidget from the cache read on, for a cache file holding fnIn.data.
CallRender ==
    /\ fnIn.kind = "render"
    /\ fnOut.kind = "none"
    /\ fnOut' = [kind |-> "widget",
                 widget |-> BuildWidget(
                     JSONParse([exists |-> TRUE, updated |-> now,
                                data |-> fnIn.data]),
                     now, fnIn.codes, fnIn.size, fnIn.preferDistricts)]
    /\ UNCHANGED <<runVars, fnIn>>

SpecRender == RenderInit /\ [][CallRender]_vars

-----------------------------------------------------------------------------
(* Properties of the cache discipline (specification Spec).                *)

\* C1: a run calls fm.writeString if and only if getData returned a non-empty
\* list, and the cache file changes in no other step: a run whose getData
\* returned [] leaves the file as it was before the run.
C1_WriteIffNonEmptyBatch ==
    /\ [](/\ wrote => Len(responses) > 0
          /\ pc \in {"cached", "done"} => (wrote <=> Len(responses) > 0))
    /\ [][ /\ (pc = "fetched" /\ pc' = "cached"
                 => (wrote' <=> Len(responses) > 0))
           /\ (file' # file => pc = "fetched" /\ Len(responses) > 0) ]_vars

\* A run whose fetch pass failed has passed the write step and left an
\* earlier run's cache file alone.
C1_Witness ==
    /\ pc = "cached"
    /\ failed
    /\ responses = <<>>
    /\ ~wrote
    /\ file.exists

\* C2: whichever of the n >= 1 requests fails, getData returns the empty
\* list, none of the records collected before, and returns normally: the run
\* goes on with the result.  A pass without failure returns one record per
\* code.
C2_AllOrNothing ==
    /\ failed =>
         /\ pc \in {"fetched", "cached", "done", "killed"}
         /\ responses = <<>>
         /\ Len(issued) \in 1..Len(codes)
    /\ (~failed /\ pc = "fetched") =>
         /\ Len(responses) = Len(codes)
         /\ \A i \in 1..Len(codes) : responses[i].code = codes[i]

\* The second request of a pass failed after the first had been answered.
C2_Witness ==
    /\ failed
    /\ pc = "fetched"
    /\ Len(issued) = 2
    /\ responses = <<>>

\* C3: after a failed fetch pass the run goes on with the stored document as
\* it was before the run, records and time stamp; without a cache file it goes
\* on with { updated: now, data: null } and shows the 'no data' message.
C3_FallBackToStoredSnapshot ==
    /\ []((pc = "done" /\ failed) =>
            /\ ~wrote
            /\ didRead
            /\ IF file.exists
               THEN /\ locData = [updated |-> file.updated, hasData |-> TRUE,
                                  data |-> file.data]
                    /\ widget.updated = file.updated
                    /\ widget.message = ""
               ELSE /\ locData = [updated |-> now, hasData |-> FALSE,
                                  data |-> <<>>]
                    /\ widget.message = "msgNoData"
                    /\ widget.lines = <<>>)
    /\ [][file' # file => (pc = "fetched" /\ ~failed)]_vars

\* A failed run shows a cache file written two days or more before.
C3_Witness ==
    /\ pc = "done"
    /\ failed
    /\ file.exists
    /\ now > file.updated
    /\ widget.updated = file.updated
    /\ Len(widget.lines) > 0

\* C4: when normalisation yields no code, the run shows the input error at
\* once: no request is issued, the cache file is neither read nor written and
\* stays as it is.
C4_NoCodesStopsAtOnce ==
    /\ [](Len(codes) = 0 =>
            /\ pc \in {"idle", "done"}
            /\ issued = <<>>
            /\ responses = <<>>
            /\ ~wrote
            /\ ~didRead
            /\ locData = NoLocData
            /\ (pc = "done" => widget.message = "msgCodeError"))
    /\ [][(pc = "idle" /\ pc' # "idle" /\ Len(codes') = 0)
            => (pc' = "done" /\ file' = file)]_vars

\* A run without codes has ended while a cache file exists.
C4_Witness ==
    /\ pc = "done"
    /\ Len(codes) = 0
    /\ widget.message = "msgCodeError"
    /\ file.exists

-----------------------------------------------------------------------------
(* Properties of getLookupCodes (specification SpecCodes).                 *)

FiveDigitPositions(raw) ==
    {i \in 1..Len(raw) : IsFiveDigits(Trim(StringOf(raw[i])))}

C6_NoDuplicateCodes ==
    fnOut.kind = "codes" =>
      \A j, k \in 1..Len(fnOut.codes) :
        j # k => fnOut.codes[j].str # fnOut.codes[k].str

-----------------------------------------------------------------------------
(* Properties of the staleness indicator (specification SpecStale).        *)

\* C7: the indicator depends on age = now - updated alone: none up to 24 h,
\* the warning above 24 h and up to 72 h, the error mark above 72 h; 24 h is
\* fresh, 24 h + 1 ms warns, 72 h warns, 72 h + 1 ms is critical.
C7_StalenessByAge ==
    fnOut.kind = "warning" =>
      LET age == fnIn.now - fnIn.updated
          w == fnOut.warning
      IN  /\ (age <= 86400000) <=> (w = "none")
          /\ (86400000 < age /\ age <= 259200000)
               <=> (w = "exclamationmark.circle.fill")
          /\ (age > 259200000) <=> (w = "xmark.circle.fill")

\* The indicator has been computed for an age of 72 h + 1 ms.
C7_Witness ==
    /\ fnOut.kind = "warning"
    /\ fnIn.now - fnIn.updated = 259200001
    /\ fnOut.warning = "xmark.circle.fill"

-----------------------------------------------------------------------------
(* Properties of the trend symbol (specification SpecTrend).               *)

\* C8: without a previous value the trend is unknown; otherwise, with
\* delta = current - previous, the first rule that applies decides:
\* delta >= previous strong rise, delta >= 1 rise, delta <= -1 fall,
\* delta <= -previous strong fall, else flat.  (10,5) is a strong rise, (6,5) a
\* rise, (5,5) flat, (4,5) a fall, and (0,0) a strong rise.
C8_TrendRules ==
    fnOut.kind = "symbol" =>
      LET sym == fnOut.symbol
          cur == fnIn.current.n
          prev == fnIn.previous.n
          delta == cur - prev
          At(c, p) == cur = c * Unit /\ prev = p * Unit
      IN  IF fnIn.previous.t = "null" THEN sym = "questionmark.circle"
          ELSE /\ delta >= prev => sym = "arrow.up.circle"
               /\ (delta < prev /\ delta >= Unit) => sym = "arrow.up.right.circle"
               /\ (delta < prev /\ delta < Unit /\ delta <= -Unit)
                    => sym = "arrow.down.right.circle"
               /\ (delta < prev /\ delta < Unit /\ delta > -Unit /\ delta <= -prev)
                    => sym = "arrow.down.circle"
               /\ (delta < prev /\ delta < Unit /\ delta > -Unit /\ delta > -prev)
                    => sym = "equal.circle"
               /\ At(10, 5) => sym = "arrow.up.circle"
               /\ At(6, 5) => sym = "arrow.up.right.circle"
               /\ At(5, 5) => sym = "equal.circle"
               /\ At(4, 5) => sym = "arrow.down.right.circle"
               /\ At(0, 0) => sym = "arrow.up.circle"

\* The symbol has been computed for a value staying at zero.
C8_Witness ==
    /\ fnOut.kind = "symbol"
    /\ fnIn.current = Num(0)
    /\ fnIn.previous = Num(0)
    /\ fnOut.symbol = "arrow.up.circle"

\* C9: the trend of 0 against a previous 5 is the strong fall.
C9_ZeroFromFiveIsStrongDown ==
    (/\ fnOut.kind = "symbol"
     /\ fnIn.current = Num(0)
     /\ fnIn.previous = Num(5 * Unit))
      => fnOut.symbol = "arrow.down.circle"

-----------------------------------------------------------------------------
(* Properties of the location list (specification Spec).                   *)

\* The label the claim gives a record: the preferred name, or the placeholder
\* of the record's own code.
OwnLabel(data, preferDistricts) ==
    LET name == IF preferDistricts THEN data.district
                ELSE IF Truthy(data.place) THEN data.place ELSE data.district
    IN  IF Truthy(name) THEN NameLabel(name.v) ELSE CodeLabel(data.code)

\* C10: every line shown carries the district name if districts are
\* preferred, else the place name or failing that the district name, and
\* without a name the placeholder of the code stored in its own record.
C10_LabelFromOwnRecord ==
    pc = "done" =>
      \A k \in 1..Len(widget.lines) :
        LET line == widget.lines[k]
        IN  line.location = OwnLabel(locData.data[line.idx], widget.preferDistricts)

-----------------------------------------------------------------------------
(* Properties of the location list (specification SpecRender).             *)

\* The resolved display name of record i of the snapshot shown.
NameAt(i) ==
    Location(fnIn.data[i], i, fnIn.codes, fnIn.preferDistricts)

\* Record i is the first of the snapshot with its display name.
FirstOfName(i) == \A j \in 1..(i - 1) : NameAt(j) # NameAt(i)

\* C11: no two lines carry the same display name; of the records resolving to
\* one name only the first is shown (every such first record is, until the
\* list is full), and the lines follow the order of the snapshot.
C11_OneLinePerName ==
    fnOut.kind = "widget" =>
      LET lines == fnOut.widget.lines
      IN  /\ \A j, k \in 1..Len(lines) :
                j < k => /\ lines[j].location # lines[k].location
                         /\ lines[j].idx < lines[k].idx
          /\ \A k \in 1..Len(lines) :
                /\ lines[k].idx \in 1..Len(fnIn.data)
                /\ lines[k].location = NameAt(lines[k].idx)
                /\ FirstOfName(lines[k].idx)
          /\ \A i \in 1..Len(fnIn.data) :
                (FirstOfName(i) /\ \A k \in 1..Len(lines) : lines[k].idx # i)
                  => Len(lines) = maxLinesOf(fnIn.size)

\* The first and the third record of a snapshot share a name, so two lines
\* are shown for three records.
C11_Witness ==
    /\ fnOut.kind = "widget"
    /\ Len(fnIn.data) = 3
    /\ NameAt(1) = NameAt(3)
    /\ NameAt(1) # NameAt(2)
    /\ Len(fnOut.widget.lines) = 2

\* The distinct elements of a sequence, in the order of their first occurrence.
RECURSIVE DistinctInOrder(_, _)
DistinctInOrder(s, acc) ==
    IF Len(s) = 0 THEN acc
    ELSE DistinctInOrder(Tail(s),
                         IF s[1] \in Range(acc) THEN acc ELSE Append(acc, s[1]))

\* The non-empty credits of the records at the positions idxs, in order.
RECURSIVE CreditsAt(_, _)
CreditsAt(data, idxs) ==
    IF Len(idxs) = 0 THEN <<>>
    ELSE (IF Truthy(data[idxs[1]].credit) THEN <<data[idxs[1]].credit.v>> ELSE <<>>)
           \o CreditsAt(data, Tail(idxs))

\* The positions of the records shown as a line with a value.
RECURSIVE ValueLines(_)
ValueLines(lines) ==
    IF Len(lines) = 0 THEN <<>>
    ELSE (IF lines[1].value.t # "null" THEN <<lines[1].idx>> ELSE <<>>)
           \o ValueLines(Tail(lines))

\* C12 as stated: the credit list holds every distinct non-empty credit of any
\* record of the snapshot, once each, in the order first seen.
C12_CreditsOfAllRecords ==
    fnOut.kind = "widget" =>
      fnOut.widget.credits =
        DistinctInOrder(CreditsAt(fnIn.data,
                                  [i \in 1..Len(fnIn.data) |-> i]), <<>>)

\* C12 as amended: the credit list holds every distinct non-empty credit of
\* the records shown as a line with a value, once each, in the order first
\* seen; records skipped for their name, beyond the line limit or without a
\* value give no credit.
C12_CreditsOfValueLines ==
    fnOut.kind = "widget" =>
      fnOut.widget.credits =
        DistinctInOrder(CreditsAt(fnIn.data, ValueLines(fnOut.widget.lines)), <<>>)

\* A record without a value is shown but its credit is not listed, while
\* another record's credit is.
C12_Witness ==
    /\ fnOut.kind = "widget"
    /\ \E k \in 1..Len(fnOut.widget.lines) :
         LET line == fnOut.widget.lines[k]
         IN  /\ line.value.t = "null"
             /\ Truthy(fnIn.data[line.idx].credit)
             /\ fnIn.data[line.idx].credit.v \notin Range(fnOut.widget.credits)
    /\ Len(fnOut.widget.credits) > 0

-----------------------------------------------------------------------------
(* Properties of unparseable metrics and of the stored document            *)
(* (specification Spec).                                                   *)

\* The lines of the widget shown for record i of the snapshot.
LinesOf(i) ==
    {k \in 1..Len(widget.lines) : widget.lines[k].idx = i}

\* C13: a metric text that is no number does not fail the fetch pass: the run
\* that was answered for every code has one record per code, writes them, and
\* reads a record with such a metric back with a null value, shown as unknown;
\* the records with a number keep it.
C13_UnparseableMetricIsNull ==
    (pc = "done" /\ ~NoCodes(codes) /\ ~failed) =>
      /\ Len(responses) = Len(codes)
      /\ \A i \in 1..Len(codes) : responses[i].code = codes[i]
      /\ wrote
      /\ file.exists
      /\ locData.hasData
      /\ Len(locData.data) = Len(codes)
      /\ \A i \in 1..Len(codes) :
           /\ locData.data[i].code = codes[i]
           /\ responses[i].incidence.t = "NaN" =>
                /\ locData.data[i].incidence = NumNull
                /\ \A k \in LinesOf(i) : /\ widget.lines[k].value = NumNull
                                         /\ widget.lines[k].trend = "none"
           /\ responses[i].incidence.t = "number" =>
                /\ locData.data[i].incidence = responses[i].incidence
                /\ \A k \in LinesOf(i) :
                     widget.lines[k].value = responses[i].incidence

\* A run of two codes: the first metric is no number and is shown as unknown,
\* the second is shown with its value.
C13_Witness ==
    /\ pc = "done"
    /\ Len(codes) = 2
    /\ Len(responses) = 2
    /\ responses[1].incidence.t = "NaN"
    /\ responses[2].incidence.t = "number"
    /\ Len(widget.lines) = 2
    /\ widget.lines[1].value = NumNull
    /\ widget.lines[2].value = responses[2].incidence

ReadBack(x) == IF x.t = "NaN" THEN NumNull ELSE x

-----------------------------------------------------------------------------
(* Properties of the fetch pass and of the cache over runs                 *)
(* (specification Spec).                                                   *)

\* C15: whenever a step changes the cache file, the new file holds one record
\* for every code of the run, in the order of the codes; a run that is ended
\* before its write leaves the file as it was.
C15_NoPartialSnapshot ==
    [][file' # file =>
         /\ pc = "fetched"
         /\ ~failed
         /\ file'.exists
         /\ Len(codes) > 0
         /\ Len(file'.data) = Len(codes)
         /\ \A i \in 1..Len(codes) : file'.data[i].code = codes[i]]_vars

\* A run of two codes is ended after the first answer, before any write.
C15_Witness ==
    /\ pc = "killed"
    /\ Len(codes) = 2
    /\ Len(responses) = 1
    /\ ~wrote

\* Within one run the requests made are the first codes of the list, in order;
\* a request is made only when every earlier one is answered, and none after
\* a failure.
RequestsInOrder ==
    /\ Len(issued) <= Len(codes)
    /\ \A k \in 1..Len(issued) : issued[k] = codes[k]
    /\ pc = "await" => Len(issued) = Len(responses) + 1
    /\ (pc = "request" \/ (pc = "fetched" /\ ~failed)) => Len(issued) = Len(responses)
    /\ failed => pc \notin {"request", "await"}

\* C16: the requests of a run are a prefix of the code list in order, one at a
\* time, none after a failure, and no code is requested twice.
C16_OneRequestPerKey ==
    /\ RequestsInOrder
    /\ \A j, k \in 1..Len(issued) : j # k => issued[j] # issued[k]

\* C17 as stated: the cache file is never deleted, and a write at a clock
\* reading other than the stamp of the file it replaces stores a greater stamp.
C17_NewerOnEveryWrite ==
    [][/\ file.exists => file'.exists
       /\ (file.exists /\ wrote' /\ ~wrote /\ now # file.updated)
            => file'.updated > file.updated]_vars

\* C17 as amended: the cache file is never deleted, and every write stamps the
\* file with the clock reading of the write, which is greater than the stamp
\* replaced if the clock has advanced beyond it.
C17_StampedWithClock ==
    [][/\ file.exists => file'.exists
       /\ (wrote' /\ ~wrote) =>
            /\ file'.exists
            /\ file'.updated = now
            /\ (file.exists /\ now > file.updated)
                 => file'.updated > file.updated]_vars

\* A run has written the file after the clock has advanced.
C17_Witness ==
    /\ pc = "cached"
    /\ wrote
    /\ file.exists
    /\ file.updated = now
    /\ now > 0

\* C18 as stated: every run that has returned its widget has computed the
\* staleness of the snapshot.
C18_StalenessInEveryRun ==
    pc = "done" => widget.updateLine

\* The staleness level of an age, by the thresholds of one and three days.
LevelOf(age) ==
    IF age > 72 * hours THEN "xmark.circle.fill"
    ELSE IF age > 24 * hours THEN "exclamationmark.circle.fill"
    ELSE "none"

\* C18 as amended: a run computes the staleness of the snapshot it shows if and
\* only if its parameters hold a code, whether its fetch pass failed or not.
C18_StalenessUnlessNoCodes ==
    pc = "done" =>
      /\ widget.updateLine <=> ~NoCodes(codes)
      /\ widget.updateLine =>
           /\ didRead
           /\ widget.updated = locData.updated
           /\ widget.warning = LevelOf(now - locData.updated)

\* A run whose fetch pass failed shows the stored snapshot with a warning.
C18_Witness ==
    /\ pc = "done"
    /\ failed
    /\ locData.hasData
    /\ widget.updateLine
    /\ widget.warning = "exclamationmark.circle.fill"

-----------------------------------------------------------------------------
(* Whole numbers and the trend symbol (specification SpecTrend).           *)

\* C19: for whole numbers the symbol is never the strong fall: it is one of
\* strong rise, rise, fall and no change.
C19_NoStrongDownForIntegers ==
    (/\ fnOut.kind = "symbol"
     /\ fnIn.previous.t = "number"
     /\ fnIn.current.n % Unit = 0
     /\ fnIn.previous.n % Unit = 0)
      => /\ fnOut.symbol # "arrow.down.circle"
         /\ fnOut.symbol \in {"arrow.up.circle", "arrow.up.right.circle",
                              "arrow.down.right.circle", "equal.circle"}

\* A fall to nothing, 0 from 5, is shown as a fall.
C19_Witness ==
    /\ fnOut.kind = "symbol"
    /\ fnIn.current = Num(0)
    /\ fnIn.previous = Num(5 * Unit)
    /\ fnOut.symbol = "arrow.down.right.circle"

====
